---- MODULE Spec2Model ----
(***************************************************************************)
(* Answer extraction and answer scoring of the unpuzzles / simple          *)
(* reasoning benchmark (answer_extraction.py, answer_scoring.py).          *)
(*                                                                         *)
(* Every entry point is a pure function.  A behaviour is one call: the     *)
(* initial state holds the arguments, the single step applies the function *)
(* and stores what the call produced: <<"ret", value>> for a returned      *)
(* value, <<"raise", name>> for an exception that leaves the function.     *)
(*                                                                         *)
(* Python values whose type matters are tagged:                            *)
(*   <<"str", s>>   <<"int", n>>   <<"None">>                              *)
(* so that == between values of different types is FALSE, as in Python.    *)
(***************************************************************************)
EXTENDS Integers, Sequences, FiniteSets, TLC

VARIABLES
  pc,           \* "ready" before the call, "done" after it
  call,         \* the entry point that is called
  json_entry,   \* the task descriptor: task, k, answer
  response,     \* the raw response text (extraction)
  answer,       \* the candidate answer (scoring)
  tuple_costs,  \* travel: the cost table before serialisation, keyed by triple
  result        \* what the call produced

vars == <<pc, call, json_entry, response, answer, tuple_costs, result>>

(***************************************************************************)
(* Python values                                                           *)
(***************************************************************************)
PyStr(s) == <<"str", s>>
PyInt(n) == <<"int", n>>
PyNone == <<"None">>

Ret(v) == <<"ret", v>>
Raise(e) == <<"raise", e>>
NoResult == <<"none">>

\* a + b on str and int operands; anything else is a TypeError
PyAdd(a, b) ==
  IF a[1] = "str" /\ b[1] = "str" THEN PyStr(a[2] \o b[2])
  ELSE IF a[1] = "int" /\ b[1] = "int" THEN PyInt(a[2] + b[2])
  ELSE <<"TypeError">>

(***************************************************************************)
(* answer_scoring.py: the travel validator                                 *)
(***************************************************************************)

\* the loop of _validate_connectivity from step i on
RECURSIVE ConnectivityLoop(_, _, _, _, _, _)
ConnectivityLoop(graph, num_cities, user_solution, i, current_city, visited_cities) ==
  IF i > Len(user_solution)
    THEN ~(Cardinality(visited_cities) < num_cities)
    ELSE LET step == user_solution[i] IN
      IF Len(step) # 3 THEN FALSE
      ELSE LET city1 == step[1]
               city2 == step[2]
               mode == step[3] IN
        IF \/ city1 \notin DOMAIN graph
           \/ city2 \notin DOMAIN graph[city1]
           \/ mode \notin graph[city1][city2]
          THEN FALSE
        ELSE IF city1 # current_city THEN FALSE
        ELSE ConnectivityLoop(graph, num_cities, user_solution, i + 1, city2,
                              visited_cities \cup {city1, city2})

_validate_connectivity(city_start, num_cities, graph, user_solution) ==
  ConnectivityLoop(graph, num_cities, user_solution, 1, city_start, {})

\* the comparison that ends _validate_budget
BudgetExceededStrict(total_cost, total_budget) == total_cost >= total_budget

BudgetExceeded(total_cost, total_budget) == total_cost > total_budget

\* the loop of _validate_budget from step i on
RECURSIVE BudgetLoop(_, _, _, _, _)
BudgetLoop(costs, total_budget, user_solution, i, total_cost) ==
  IF i > Len(user_solution)
    THEN ~BudgetExceeded(total_cost, total_budget)
    ELSE LET step == user_solution[i]
             key == PyAdd(PyAdd(step[1], step[2]), step[3]) IN
      IF key = <<"TypeError">> THEN FALSE
      ELSE IF key \in DOMAIN costs
        THEN BudgetLoop(costs, total_budget, user_solution, i + 1,
                        total_cost + costs[key])
        ELSE FALSE

_validate_budget(costs, total_budget, user_solution) ==
  BudgetLoop(costs, total_budget, user_solution, 1, 0)

score_travel_eval(correct_answer, user_solution) ==
  IF user_solution = <<>> THEN Ret(FALSE)
  ELSE LET last == user_solution[Len(user_solution)] IN
    IF Len(last) < 2 THEN Raise("IndexError")
    ELSE IF last[2] # correct_answer.city_end THEN Ret(FALSE)
    ELSE IF ~_validate_connectivity(correct_answer.city_start, correct_answer.steps,
                                    correct_answer.graph, user_solution)
      THEN Ret(FALSE)
    ELSE IF ~_validate_budget(correct_answer.costs, correct_answer.total_budget,
                              user_solution)
      THEN Ret(FALSE)
    ELSE Ret(TRUE)

(***************************************************************************)
(* Travel inputs                                                           *)
(***************************************************************************)
MaxPlanLen == 2

Edge(a, b, m) == <<PyStr(a), PyStr(b), PyStr(m)>>

\* the edges a graph is drawn from
GraphEdges == {Edge("a", "bc", "x"), Edge("bc", "c", "x"), Edge("ab", "c", "x")}

\* the steps a well-formed itinerary is drawn from
PlanSteps == GraphEdges \cup {Edge("a", "bc", "y")}

\* the triples a cost table is drawn from, and their fares
PricedTriples == {Edge("a", "bc", "x"), Edge("bc", "c", "x"), Edge("a", "bc", "y")}

Fare(t) == IF t[3] = PyStr("x") THEN 1 ELSE 2

\* the graph dictionary of a set of edges
GraphOf(E) ==
  [c1 \in {e[1] : e \in E} |->
    [c2 \in {e[2] : e \in {d \in E : d[1] = c1}} |->
      {e[3] : e \in {d \in E : d[1] = c1 /\ d[2] = c2}}]]

CostKey(t) == PyAdd(PyAdd(t[1], t[2]), t[3])

\* the cost table with its tuple keys joined into strings
_make_serializable(table) ==
  [key \in {CostKey(t) : t \in DOMAIN table} |->
    table[CHOOSE t \in DOMAIN table : CostKey(t) = key]]

SeqsUpTo(S, n) == UNION {[1..m -> S] : m \in 0..n}

TravelConstraints(priced) ==
  [city_start : {PyStr("a"), PyStr("ab")},
   city_end : {PyStr("c"), PyStr("bc")},
   steps : {2, 3},
   total_budget : {1, 2},
   graph : {GraphOf(E) : E \in SUBSET GraphEdges},
   costs : {_make_serializable(priced)}]

InitTravel ==
  /\ pc = "ready"
  /\ call = "score_travel_eval"
  /\ \E P \in SUBSET PricedTriples :
       /\ tuple_costs = [t \in P |-> Fare(t)]
       /\ \E c \in TravelConstraints([t \in P |-> Fare(t)]) :
            json_entry = [task |-> "travel", k |-> 0, answer |-> c]
  /\ answer \in SeqsUpTo(PlanSteps, MaxPlanLen)
  /\ response = ""
  /\ result = NoResult

ScoreTravelEval ==
  /\ pc = "ready"
  /\ call = "score_travel_eval"
  /\ result' = score_travel_eval(json_entry.answer, answer)
  /\ pc' = "done"
  /\ UNCHANGED <<call, json_entry, response, answer, tuple_costs>>

SpecTravel == InitTravel /\ [][ScoreTravelEval]_vars

\* the steps a raw (possibly malformed) itinerary is drawn from
RawSteps ==
  {<<>>, <<PyStr("a")>>, <<PyStr("a"), PyStr("c")>>, Edge("a", "c", "x"),
   <<PyStr("a"), PyStr("c"), PyStr("x"), PyStr("x")>>,
   <<PyStr("a"), PyStr("c"), PyInt(1)>>}

RawConstraints ==
  [city_start : {PyStr("a")},
   city_end : {PyStr("c"), PyStr("x")},
   steps : {1, 3},
   total_budget : {1, 2},
   graph : {[c1 \in {PyStr("a")} |-> [c2 \in {PyStr("c")} |-> M]] :
              M \in {{PyStr("x")}, {PyStr("x"), PyInt(1)}}},
   costs : {_make_serializable([t \in P |-> 1]) : P \in SUBSET {Edge("a", "c", "x")}}]

InitTravelRaw ==
  /\ pc = "ready"
  /\ call = "score_travel_eval"
  /\ tuple_costs = <<>>
  /\ \E c \in RawConstraints : json_entry = [task |-> "travel", k |-> 0, answer |-> c]
  /\ answer \in SeqsUpTo(RawSteps, MaxPlanLen)
  /\ response = ""
  /\ result = NoResult

SpecTravelRaw == InitTravelRaw /\ [][ScoreTravelEval]_vars

(***************************************************************************)
(* Strings: str.lower and str.strip                                        *)
(***************************************************************************)
Char(s, i) == SubSeq(s, i, i)

UpperCase == "ABCDEFGHIJKLMNOPQRSTUVWXYZ"
LowerCase == "abcdefghijklmnopqrstuvwxyz"

LowerChar(c) ==
  IF \E i \in 1..Len(UpperCase) : Char(UpperCase, i) = c
    THEN Char(LowerCase, CHOOSE i \in 1..Len(UpperCase) : Char(UpperCase, i) = c)
    ELSE c

\* s.lower()
RECURSIVE Lower(_)
Lower(s) == IF s = "" THEN "" ELSE LowerChar(Char(s, 1)) \o Lower(Tail(s))

\* s.lstrip(" ") and s.rstrip(" ")
RECURSIVE LStripSpace(_)
LStripSpace(s) == IF s # "" /\ Char(s, 1) = " " THEN LStripSpace(Tail(s)) ELSE s

RECURSIVE RStripSpace(_)
RStripSpace(s) ==
  IF s # "" /\ Char(s, Len(s)) = " " THEN RStripSpace(SubSeq(s, 1, Len(s) - 1)) ELSE s

\* s.strip(" ")
StripSpace(s) == RStripSpace(LStripSpace(s))

(***************************************************************************)
(* answer_scoring.py: the other scorers and the dispatch                   *)
(***************************************************************************)

\* correct_answer.values(): a dict is the sequence of its <<key, value>> items in
\* insertion order
Values(d) == [i \in 1..Len(d) |-> d[i][2]]

\* all(a1 == a2 for (a1, a2) in zip(answer, values)) from pair i on
RECURSIVE ZipAll(_, _, _)
ZipAll(xs, ys, i) ==
  IF i > Len(xs) \/ i > Len(ys) THEN TRUE
  ELSE IF xs[i] # ys[i] THEN FALSE
  ELSE ZipAll(xs, ys, i + 1)

score_count_eval_strict(correct_answer, candidate) ==
  IF candidate = <<>> THEN Ret(FALSE)
  ELSE Ret(Len(candidate) = Len(correct_answer) /\ ZipAll(candidate, Values(correct_answer), 1))

score_count_eval_no_empty_check(correct_answer, candidate) ==
  Ret(ZipAll(candidate, Values(correct_answer), 1))

score_count_eval(correct_answer, candidate) ==
  IF candidate = <<>> THEN Ret(FALSE)
  ELSE Ret(ZipAll(candidate, Values(correct_answer), 1))

score_mathgap_eval(correct_answer, candidate) == Ret(correct_answer = candidate)

score_logic_eval(correct_answer, candidate) ==
  IF candidate = "" THEN Ret(FALSE)
  ELSE Ret(Lower(correct_answer) = Lower(candidate))

score_unpuzzle_eval_rstrip(s1, s2) == Ret(Lower(s1) = RStripSpace(Lower(s2)))

score_unpuzzle_eval(s1, s2) == Ret(StripSpace(Lower(s1)) = StripSpace(Lower(s2)))

CountTasks == {"character_count", "word_count"}
MathgapTasks == {"mathgap_diverse", "mathgap_irrelevant"}
LogicTasks == {"logic_negation", "logic_evaluation"}

score_eval(entry, candidate) ==
  IF entry.task \in CountTasks THEN score_count_eval(entry.answer, candidate)
  ELSE IF entry.task \in MathgapTasks THEN score_mathgap_eval(entry.answer, candidate)
  ELSE IF entry.task = "travel" THEN score_travel_eval(entry.answer, candidate)
  ELSE IF entry.task \in LogicTasks THEN score_logic_eval(entry.answer, candidate)
  ELSE Ret(FALSE)

(***************************************************************************)
(* Scoring inputs                                                          *)
(***************************************************************************)
MaxAnswers == 3
MaxStrLen == 3

RECURSIVE StringsUpTo(_, _)
StringsUpTo(alphabet, n) ==
  IF n = 0 THEN {""}
  ELSE LET shorter == StringsUpTo(alphabet, n - 1) IN
    shorter \cup {s \o c : s \in shorter, c \in alphabet}

DictKeys == "abcdefghijklmnopqrstuvwxyz"

\* the dict that holds the values vs under the keys a, b, c, ...
DictOf(vs) == [i \in 1..Len(vs) |-> <<Char(DictKeys, i), vs[i]>>]

CountTruths == {DictOf(vs) : vs \in SeqsUpTo({PyInt(3), PyInt(4), PyInt(5)}, MaxAnswers)}
CountCandidates == SeqsUpTo({PyInt(3), PyInt(4), PyStr(""), PyNone}, MaxAnswers)

ScoreInputs(task, truths, candidates) ==
  /\ \E t \in truths : json_entry = [task |-> task, k |-> 0, answer |-> t]
  /\ answer \in candidates

InitScore ==
  /\ pc = "ready"
  /\ tuple_costs = <<>>
  /\ response = ""
  /\ result = NoResult
  /\ \/ /\ call = "score_eval"
        /\ \/ \E task \in CountTasks : ScoreInputs(task, CountTruths, CountCandidates)
           \/ \E task \in MathgapTasks :
                ScoreInputs(task, {PyInt(3), PyInt(4)}, {PyInt(3), PyInt(4), PyNone})
           \/ ScoreInputs("travel", RawConstraints, SeqsUpTo(RawSteps, 1))
           \/ \E task \in LogicTasks :
                ScoreInputs(task, {"A", "B", "a"}, {"", "A", "a", "B", "C"})
           \/ ScoreInputs("unpuzzle", {"a", ""}, {"", "a", "b"})
     \/ /\ call = "score_unpuzzle_eval"
        /\ ScoreInputs("unpuzzle", StringsUpTo({" ", "a", "A", "\t"}, MaxStrLen),
                       StringsUpTo({" ", "a", "A", "\t"}, MaxStrLen))

ScoreEval ==
  /\ pc = "ready"
  /\ call = "score_eval"
  /\ result' = score_eval(json_entry, answer)
  /\ pc' = "done"
  /\ UNCHANGED <<call, json_entry, response, answer, tuple_costs>>

ScoreUnpuzzleEval ==
  /\ pc = "ready"
  /\ call = "score_unpuzzle_eval"
  /\ result' = score_unpuzzle_eval(json_entry.answer, answer)
  /\ pc' = "done"
  /\ UNCHANGED <<call, json_entry, response, answer, tuple_costs>>

NextScore == ScoreEval \/ ScoreUnpuzzleEval

SpecScore == InitScore /\ [][NextScore]_vars

(***************************************************************************)
(* Regular expressions: the backtracking matcher of Python's re module     *)
(*                                                                         *)
(* A pattern is a tree of nodes:                                           *)
(*   <<"lit", s>>                    the literal text s                    *)
(*   <<"in", S>>, <<"notin", S>>     one character in / not in the set S   *)
(*   <<"dot">>                       any character but a newline           *)
(*   <<"any">>                       any character (re.DOTALL)             *)
(*   <<"eos">>                       $: the end, or before a final newline *)
(*   <<"seq", <<r1, ..., rn>>>>      r1 ... rn one after the other         *)
(*   <<"rep", r, min, max, greedy>>  min to max times r (max -1: no limit) *)
(*   <<"group", r>>                  r, captured as group 1                *)
(* Every pattern of the program has exactly one capturing group.           *)
(***************************************************************************)
Lit(s) == <<"lit", s>>
In(S) == <<"in", S>>
NotIn(S) == <<"notin", S>>
Dot == <<"dot">>
AnyChar == <<"any">>
EndOfString == <<"eos">>
Cat(rs) == <<"seq", rs>>
Star(r) == <<"rep", r, 0, -1, TRUE>>
Plus(r) == <<"rep", r, 1, -1, TRUE>>
Opt(r) == <<"rep", r, 0, 1, TRUE>>
LazyStar(r) == <<"rep", r, 0, -1, FALSE>>
LazyPlus(r) == <<"rep", r, 1, -1, FALSE>>
Times(r, n) == <<"rep", r, n, n, TRUE>>
Group(r) == <<"group", r>>

Digits == {"0", "1", "2", "3", "4", "5", "6", "7", "8", "9"}

NoMatch == <<"nomatch">>
Matched(m) == m[1] = "match"

\* whether the one-character node r matches the character c
CharMatches(r, c) ==
  CASE r[1] = "lit" -> c = r[2]
    [] r[1] = "in" -> c \in r[2]
    [] r[1] = "notin" -> c \notin r[2]
    [] r[1] = "dot" -> c # "\n"
    [] r[1] = "any" -> TRUE

IsOneChar(r) == r[1] \in {"in", "notin", "dot", "any"} \/ (r[1] = "lit" /\ Len(r[2]) = 1)

\* how many characters of s from position i on the one-character node r matches
RunLength(r, s, i) ==
  IF \A j \in i..Len(s) : CharMatches(r, Char(s, j)) THEN Len(s) - i + 1
  ELSE (CHOOSE j \in i..Len(s) :
          /\ ~CharMatches(r, Char(s, j))
          /\ \A k \in i..(j - 1) : CharMatches(r, Char(s, k))) - i

Largest(S) == CHOOSE k \in S : \A j \in S : j <= k
Smallest(S) == CHOOSE k \in S : \A j \in S : k <= j

\* MatchHere(todo, s, i, g): the nodes of todo matched one after the other from
\* position i of s, alternatives tried in the matcher's order; the first way that
\* succeeds gives <<"match", end, g>> with g the span of group 1 (<<>>: not set).
\* A repetition of a one-character node tries its counts from the largest down
\* (greedy) or from the smallest up (lazy).
RECURSIVE MatchHere(_, _, _, _)
RECURSIVE MatchNode(_, _, _, _, _)
RECURSIVE RepeatChar(_, _, _, _, _, _)
RECURSIVE RepeatCount(_, _, _, _, _, _)
RECURSIVE RepeatNode(_, _, _, _, _)

FirstMatch(first, second) == IF Matched(first) THEN first ELSE second

MatchHere(todo, s, i, g) ==
  IF todo = <<>> THEN <<"match", i, g>> ELSE MatchNode(Head(todo), Tail(todo), s, i, g)

MatchNode(r, rest, s, i, g) ==
  CASE r[1] = "lit" ->
         IF i + Len(r[2]) - 1 <= Len(s) /\ SubSeq(s, i, i + Len(r[2]) - 1) = r[2]
           THEN MatchHere(rest, s, i + Len(r[2]), g) ELSE NoMatch
    [] r[1] \in {"in", "notin", "dot", "any"} ->
         IF i <= Len(s) /\ CharMatches(r, Char(s, i))
           THEN MatchHere(rest, s, i + 1, g) ELSE NoMatch
    [] r[1] = "eos" ->
         IF i = Len(s) + 1 \/ (i = Len(s) /\ Char(s, i) = "\n")
           THEN MatchHere(rest, s, i, g) ELSE NoMatch
    [] r[1] = "seq" -> MatchHere(r[2] \o rest, s, i, g)
    [] r[1] = "group" -> MatchHere(<<r[2], <<"endgroup", i>>>> \o rest, s, i, g)
    [] r[1] = "endgroup" -> MatchHere(rest, s, i, <<r[2], i - 1>>)
    [] r[1] = "rep" /\ IsOneChar(r[2]) ->
         RepeatChar(r, rest, s, i, g, RunLength(r[2], s, i))
    [] r[1] = "rep" /\ ~IsOneChar(r[2]) -> RepeatNode(r, rest, s, i, g)

\* the repetition r taken as many times as the order of r asks for, counts being
\* the numbers of times after which the rest matches
RepeatCount(r, rest, s, i, g, counts) ==
  IF counts = {} THEN NoMatch
  ELSE MatchHere(rest, s, i + (IF r[5] THEN Largest(counts) ELSE Smallest(counts)), g)

\* a repetition of a one-character node that matches the next run characters
RepeatChar(r, rest, s, i, g, run) ==
  RepeatCount(r, rest, s, i, g,
              {k \in r[3]..(IF r[4] = -1 \/ run < r[4] THEN run ELSE r[4]) :
                 Matched(MatchHere(rest, s, i + k, g))})

\* a repetition of any other node: once more and then the rest, or the rest
RepeatNode(r, rest, s, i, g) ==
  IF r[5]
    THEN FirstMatch(
           IF r[4] = 0 THEN NoMatch
           ELSE MatchHere(<<r[2], <<"rep", r[2], IF r[3] > 0 THEN r[3] - 1 ELSE 0,
                                    IF r[4] > 0 THEN r[4] - 1 ELSE r[4], r[5]>>>> \o rest,
                          s, i, g),
           IF r[3] > 0 THEN NoMatch ELSE MatchHere(rest, s, i, g))
    ELSE FirstMatch(
           IF r[3] > 0 THEN NoMatch ELSE MatchHere(rest, s, i, g),
           IF r[4] = 0 THEN NoMatch
           ELSE MatchHere(<<r[2], <<"rep", r[2], IF r[3] > 0 THEN r[3] - 1 ELSE 0,
                                    IF r[4] > 0 THEN r[4] - 1 ELSE r[4], r[5]>>>> \o rest,
                          s, i, g))

\* pattern.search(s) from position from on: <<"match", start, end, g>> of the first
\* position where the pattern matches, or NoMatch
RECURSIVE SearchFrom(_, _, _)
RECURSIVE SearchAt(_, _, _, _)

SearchFrom(r, s, from) ==
  IF from > Len(s) + 1 THEN NoMatch
  ELSE SearchAt(r, s, from, MatchHere(<<r>>, s, from, <<>>))

SearchAt(r, s, from, m) ==
  IF Matched(m) THEN <<"match", from, m[2], m[3]>> ELSE SearchFrom(r, s, from + 1)

Search(r, s) == SearchFrom(r, s, 1)

\* match.group(1): <<>> (None) when the group took no part in the match
HasGroup(m) == m[4] # <<>>
GroupText(s, m) == SubSeq(s, m[4][1], m[4][2])

\* where the search goes on after the match m: an empty match moves on by one
AfterMatch(m) == IF m[3] = m[2] THEN m[3] + 1 ELSE m[3]

\* pattern.findall(s): group 1 of the successive non-overlapping matches
RECURSIVE FindAllFrom(_, _, _)
RECURSIVE FindAllNext(_, _, _)

FindAllFrom(r, s, from) == FindAllNext(r, s, SearchFrom(r, s, from))

FindAllNext(r, s, m) ==
  IF ~Matched(m) THEN <<>>
  ELSE <<IF HasGroup(m) THEN GroupText(s, m) ELSE "">> \o FindAllFrom(r, s, AfterMatch(m))

FindAll(r, s) == FindAllFrom(r, s, 1)

\* re.sub(pattern, r"\1", s): every match replaced by its group 1
RECURSIVE SubGroupFrom(_, _, _)
RECURSIVE SubGroupNext(_, _, _, _)

SubGroupFrom(r, s, from) == SubGroupNext(r, s, from, SearchFrom(r, s, from))

SubGroupNext(r, s, from, m) ==
  IF ~Matched(m) THEN SubSeq(s, from, Len(s))
  ELSE SubSeq(s, from, m[2] - 1) \o GroupText(s, m)
         \o (IF m[3] = m[2] THEN SubSeq(s, m[3], m[3]) ELSE "")
         \o SubGroupFrom(r, s, AfterMatch(m))

SubGroup(r, s) == SubGroupFrom(r, s, 1)

(***************************************************************************)
(* answer_extraction.py: helpers                                           *)
(***************************************************************************)
Whitespace == {" ", "\t", "\n", "\r", "\f"}

\* s.strip()
RECURSIVE LStrip(_)
LStrip(s) == IF s # "" /\ Char(s, 1) \in Whitespace THEN LStrip(Tail(s)) ELSE s

RECURSIVE RStrip(_)
RStrip(s) ==
  IF s # "" /\ Char(s, Len(s)) \in Whitespace THEN RStrip(SubSeq(s, 1, Len(s) - 1)) ELSE s

Strip(s) == RStrip(LStrip(s))

StartsWith(s, c) == s # "" /\ Char(s, 1) = c
EndsWith(s, c) == s # "" /\ Char(s, Len(s)) = c

\* s.split(sep) for a one-character sep: the pieces of s between the separators
RECURSIVE Split(_, _)
RECURSIVE SplitAt(_, _, _)

Split(s, sep) ==
  IF \A i \in 1..Len(s) : Char(s, i) # sep THEN <<s>>
  ELSE SplitAt(s, sep, Smallest({i \in 1..Len(s) : Char(s, i) = sep}))

SplitAt(s, sep, first) ==
  <<SubSeq(s, 1, first - 1)>> \o Split(SubSeq(s, first + 1, Len(s)), sep)

DigitValue(c) == (CHOOSE i \in 1..10 : Char("0123456789", i) = c) - 1

RECURSIVE DecimalValue(_)
DecimalValue(ds) ==
  IF ds = "" THEN 0
  ELSE 10 * DecimalValue(SubSeq(ds, 1, Len(ds) - 1)) + DigitValue(Char(ds, Len(ds)))

AllDigits(s) == s # "" /\ \A i \in 1..Len(s) : Char(s, i) \in Digits

ValueError == <<"ValueError">>

\* int(s) once s is stripped and has lost its sign
ParseDigits(ds, negative) ==
  IF ~AllDigits(ds) THEN ValueError
  ELSE IF negative THEN PyInt(0 - DecimalValue(ds))
  ELSE PyInt(DecimalValue(ds))

\* int(s) once s is stripped
ParseSigned(t) ==
  IF StartsWith(t, "+") \/ StartsWith(t, "-")
    THEN ParseDigits(Tail(t), StartsWith(t, "-"))
    ELSE ParseDigits(t, FALSE)

\* int(s): surrounding whitespace and a sign are accepted; anything but decimal
\* digits in between is a ValueError
ParseInt(s) == ParseSigned(Strip(s))

text_to_int_dict ==
  <<"zero", "one", "two", "three", "four", "five", "six", "seven", "eight", "nine",
    "ten", "eleven", "twelve", "thirteen", "fourteen", "fifteen", "sixteen",
    "seventeen", "eighteen", "nineteen", "twenty">>

_text_to_int(s) ==
  IF \E i \in 1..Len(text_to_int_dict) : text_to_int_dict[i] = s
    THEN PyInt((CHOOSE i \in 1..Len(text_to_int_dict) : text_to_int_dict[i] = s) - 1)
    ELSE PyNone

Number == Group(Plus(In(Digits)))

_remove_text_formatting(text) ==
  SubGroup(Cat(<<Number, Lit("\\")>>),
    SubGroup(Cat(<<Lit("\\"), Number>>),
      SubGroup(Cat(<<Number, Lit("**")>>),
        SubGroup(Cat(<<Lit("**"), Number>>),
          SubGroup(Cat(<<Number, Lit("#")>>),
            SubGroup(Cat(<<Lit("#"), Number>>), text))))))

(***************************************************************************)
(* answer_extraction.py: counting, mathgap, logic, unpuzzle                *)
(***************************************************************************)

\* r"appear.*?(\d+).*?time"
count_re ==
  Cat(<<Lit("appear"), LazyStar(Dot), Group(Plus(In(Digits))), LazyStar(Dot), Lit("time")>>)

\* r".*appear \**\\?\[(.+)?\\?\]\** time"
count_multi_re ==
  Cat(<<Star(Dot), Lit("appear "), Star(Lit("*")), Opt(Lit("\\")), Lit("["),
        Opt(Group(Plus(Dot))), Opt(Lit("\\")), Lit("]"), Star(Lit("*")), Lit(" time")>>)

\* try: ans = int(s)  except ValueError: ans = _text_to_int(s), n being int(s)
IntOrWord(s, n) == IF n = ValueError THEN _text_to_int(s) ELSE n

\* the answer for the text s, formatting already removed
CountAnswer(s) == IntOrWord(s, ParseInt(s))

\* the answers of the bracketed list, checked against k
CountAnswers(answers, k) == IF Len(answers) # k THEN Ret(<<PyStr("")>>) ELSE Ret(answers)

CountSplit(ans_list, k) ==
  CountAnswers([i \in 1..Len(ans_list) |->
                  CountAnswer(_remove_text_formatting(ans_list[i]))], k)

\* the k == 1 branch of extract_count_eval after the search
CountSingle(text, match_obj) ==
  IF ~Matched(match_obj) THEN Ret(<<PyStr("")>>)
  ELSE Ret(<<CountAnswer(_remove_text_formatting(GroupText(text, match_obj)))>>)

\* the other branch of extract_count_eval after the search: `ans` has no value
\* yet when nothing matched, and group(1) is None when the brackets are empty
CountMulti(text, k, match_obj) ==
  IF ~Matched(match_obj) THEN Raise("UnboundLocalError")
  ELSE IF ~HasGroup(match_obj) THEN Raise("AttributeError")
  ELSE CountSplit(Split(GroupText(text, match_obj), ","), k)

extract_count_eval(text, k) ==
  IF k = 1 THEN CountSingle(text, Search(count_re, text))
  ELSE CountMulti(text, k, Search(count_multi_re, text))

\* r"boxed{([^}] *)}" (without the blank)
mathgap_re == Cat(<<Lit("boxed{"), Group(Star(NotIn({"}"}))), Lit("}")>>)

\* try: answer = int(matches[-1])  except ValueError: answer = None
IntOrNone(n) == IF n = ValueError THEN Ret(PyNone) ELSE Ret(n)

MathgapAnswer(matches) ==
  IF matches = <<>> THEN Ret(PyNone) ELSE IntOrNone(ParseInt(matches[Len(matches)]))

extract_mathgap_eval(text) == MathgapAnswer(FindAll(mathgap_re, text))

Choices == {"A", "B", "C", "D"}

\* r".*<answer>([A-D])</answer>"
extract_answer_html ==
  Cat(<<Star(Dot), Lit("<answer>"), Group(In(Choices)), Lit("</answer>")>>)

\* r"boxed\{([A-D])\}"
extract_answer_boxed == Cat(<<Lit("boxed{"), Group(In(Choices)), Lit("}")>>)

\* r"answer:? ([A-D])"
extract_answer_sentence ==
  Cat(<<Lit("answer"), Opt(Lit(":")), Lit(" "), Group(In(Choices))>>)

\* r"answer.*?([A-D])": the second binding of the name, the one that is in force
\* when compiled_res is built
extract_answer_sentence2 == Cat(<<Lit("answer"), LazyStar(Dot), Group(In(Choices))>>)

compiled_res_sentence_first ==
  <<extract_answer_sentence, extract_answer_sentence2, extract_answer_html,
    extract_answer_boxed>>

compiled_res ==
  <<extract_answer_html, extract_answer_boxed, extract_answer_sentence,
    extract_answer_sentence2>>

\* the loop of extract_logic_eval from pattern n on
RECURSIVE LogicLoop(_, _)
RECURSIVE LogicStep(_, _, _)

LogicLoop(text, n) ==
  IF n > Len(compiled_res) THEN Ret("")
  ELSE LogicStep(text, n, Search(compiled_res[n], text))

LogicStep(text, n, match_object) ==
  IF Matched(match_object) THEN Ret(GroupText(text, match_object))
  ELSE LogicLoop(text, n + 1)

extract_logic_eval(text) == LogicLoop(text, 1)

find_answers ==
  << \* r"boxed\{(.+?)\}"
     Cat(<<Lit("boxed{"), Group(LazyPlus(Dot)), Lit("}")>>),
     \* r"Answer.*\*{2}(.+)\*{2}"
     Cat(<<Lit("Answer"), Star(Dot), Times(Lit("*"), 2), Group(Plus(Dot)),
           Times(Lit("*"), 2)>>),
     \* r"\*{2}Answer:? (.+)\*{2}"
     Cat(<<Times(Lit("*"), 2), Lit("Answer"), Opt(Lit(":")), Lit(" "), Group(Plus(Dot)),
           Times(Lit("*"), 2)>>),
     \* r"answer is:? (.+)."
     Cat(<<Lit("answer is"), Opt(Lit(":")), Lit(" "), Group(Plus(Dot)), Dot>>),
     \* r"\*{2}answer is:? (.+)\*{2}"
     Cat(<<Times(Lit("*"), 2), Lit("answer is"), Opt(Lit(":")), Lit(" "),
           Group(Plus(Dot)), Times(Lit("*"), 2)>>),
     \* r"Answer: (.+)."
     Cat(<<Lit("Answer: "), Group(Plus(Dot)), Dot>>),
     \* r"/$(.+?)/$"
     Cat(<<Lit("/"), EndOfString, Group(LazyPlus(Dot)), Lit("/"), EndOfString>>) >>

Placeholders == {"your answer", "answer"}

\* the inner loop of extract_unpuzzle_eval: the first match that is no placeholder
RECURSIVE FirstAnswer(_, _)
FirstAnswer(matches, i) ==
  IF i > Len(matches) THEN <<"none">>
  ELSE IF matches[i] \notin Placeholders THEN <<"found", matches[i]>>
  ELSE FirstAnswer(matches, i + 1)

\* the loop of extract_unpuzzle_eval from pattern n on
RECURSIVE UnpuzzleLoop(_, _)
RECURSIVE UnpuzzleStep(_, _, _, _)

UnpuzzleLoop(text, n) ==
  IF n > Len(find_answers) THEN Ret("")
  ELSE UnpuzzleStep(text, n, FindAll(find_answers[n], text),
                    FirstAnswer(FindAll(find_answers[n], text), 1))

\* a pattern whose matches are all placeholders ends the search
UnpuzzleStepFirstMatchOnly(text, n, matches, found) ==
  IF found[1] = "found" THEN Ret(found[2])
  ELSE IF matches # <<>> THEN Ret("")
  ELSE UnpuzzleLoop(text, n + 1)

\* if matches: return the first that is no placeholder; whatever the matches
\* were, the loop goes on with the next pattern when nothing was returned
UnpuzzleStep(text, n, matches, found) ==
  IF matches # <<>> /\ found[1] = "found" THEN Ret(found[2])
  ELSE UnpuzzleLoop(text, n + 1)

extract_unpuzzle_eval(text) == UnpuzzleLoop(text, 1)

(***************************************************************************)
(* answer_extraction.py: the travel plan                                   *)
(***************************************************************************)

\* ", ".join(parts)
RECURSIVE Join(_, _)
Join(parts, i) ==
  IF i > Len(parts) THEN ""
  ELSE IF i = Len(parts) THEN parts[i]
  ELSE parts[i] \o ", " \o Join(parts, i + 1)

\* a part that is already quoted is kept, any other is put in single quotes
QuotePart(p) ==
  IF \/ StartsWith(p, "'") /\ EndsWith(p, "'")
     \/ StartsWith(p, "\"") /\ EndsWith(p, "\"")
    THEN p
    ELSE "'" \o p \o "'"

QuoteParts(raw) == [i \in 1..Len(raw) |-> QuotePart(Strip(raw[i]))]

\* replacer of _insert_quotes_in_tuples, on the text inside the parentheses
Replacer(content) == "(" \o Join(QuoteParts(Split(content, ",")), 1) \o ")"

\* r"\(([^()]+)\)"
paren_re == Cat(<<Lit("("), Group(Plus(NotIn({"(", ")"}))), Lit(")")>>)

\* re.sub(paren_re, replacer, candidate) from position from on
RECURSIVE InsertQuotesFrom(_, _)
RECURSIVE InsertQuotesNext(_, _, _)

InsertQuotesFrom(candidate, from) ==
  InsertQuotesNext(candidate, from, SearchFrom(paren_re, candidate, from))

InsertQuotesNext(candidate, from, m) ==
  IF ~Matched(m) THEN SubSeq(candidate, from, Len(candidate))
  ELSE SubSeq(candidate, from, m[2] - 1) \o Replacer(GroupText(candidate, m))
         \o InsertQuotesFrom(candidate, m[3])

_insert_quotes_in_tuples(candidate) == InsertQuotesFrom(candidate, 1)

\* ast.literal_eval on the literals a travel plan is written with: lists and
\* tuples of quoted strings; a bare name parses and is then refused.
\* A parsed value is <<"list", items>>, <<"tuple", items>>, <<"str", s>> or
\* <<"name", s>>.
NameChars ==
  {Char(LowerCase, i) : i \in 1..Len(LowerCase)}
    \cup {Char(UpperCase, i) : i \in 1..Len(UpperCase)} \cup {"_"}

SyntaxError == <<"SyntaxError">>
IsOk(p) == p[1] = "ok"

\* the first position from i on that holds a character outside chars
FirstOutside(s, i, chars) ==
  IF \A j \in i..Len(s) : Char(s, j) \in chars THEN Len(s) + 1
  ELSE Smallest({j \in i..Len(s) : Char(s, j) \notin chars})

\* the first position from i on that holds no blank (inside brackets a newline is
\* a blank too)
SkipBlanks(s, i, nested) == FirstOutside(s, i, IF nested THEN Whitespace ELSE {" ", "\t"})

\* a quoted string from its opening quote at i to its closing quote at j
StringEnd(s, i, j) ==
  IF \E n \in (i + 1)..(j - 1) : Char(s, n) = "\n" THEN SyntaxError
  ELSE <<"ok", PyStr(SubSeq(s, i + 1, j - 1)), j + 1>>

\* a quoted string that opens at position i: <<"ok", <<"str", text>>, next>>
ParseString(s, i) ==
  IF \A j \in (i + 1)..Len(s) : Char(s, j) # Char(s, i) THEN SyntaxError
  ELSE StringEnd(s, i, Smallest({j \in (i + 1)..Len(s) : Char(s, j) = Char(s, i)}))

\* whether position n ends the sequence of expressions closed by close
\* (close "": the end of the text)
AtClose(s, n, close) == IF close # "" THEN n <= Len(s) /\ Char(s, n) = close ELSE n > Len(s)

RECURSIVE ParseAtom(_, _)
RECURSIVE ParseItems(_, _, _, _, _)
RECURSIVE ItemsAt(_, _, _, _, _)
RECURSIVE ItemsAfter(_, _, _, _, _)
RECURSIVE ItemsNext(_, _, _, _, _)

\* the expressions separated by commas from position i up to the closing
\* character: <<"ok", items, whether a comma was seen, next>>
ParseItems(s, i, close, items, comma) ==
  ItemsAt(s, SkipBlanks(s, i, close # ""), close, items, comma)

ItemsAt(s, j, close, items, comma) ==
  IF AtClose(s, j, close) THEN <<"ok", items, comma, j + 1>>
  ELSE IF j > Len(s) THEN SyntaxError
  ELSE ItemsAfter(s, ParseAtom(s, j), close, items, comma)

ItemsAfter(s, a, close, items, comma) ==
  IF ~IsOk(a) THEN SyntaxError
  ELSE ItemsNext(s, SkipBlanks(s, a[3], close # ""), close, Append(items, a[2]), comma)

ItemsNext(s, n, close, items, comma) ==
  IF n <= Len(s) /\ Char(s, n) = "," THEN ParseItems(s, n + 1, close, items, TRUE)
  ELSE IF AtClose(s, n, close) THEN <<"ok", items, comma, n + 1>>
  ELSE SyntaxError

ListOf(p) == IF IsOk(p) THEN <<"ok", <<"list", p[2]>>, p[4]>> ELSE SyntaxError

\* (x) is x; () and (x,) and (x, y) are tuples
TupleOf(p) ==
  IF ~IsOk(p) THEN SyntaxError
  ELSE IF Len(p[2]) = 1 /\ ~p[3] THEN <<"ok", p[2][1], p[4]>>
  ELSE <<"ok", <<"tuple", p[2]>>, p[4]>>

\* one list, tuple, parenthesised expression, string or name at position i:
\* <<"ok", value, next>>
ParseAtom(s, i) ==
  IF Char(s, i) = "[" THEN ListOf(ParseItems(s, i + 1, "]", <<>>, FALSE))
  ELSE IF Char(s, i) = "(" THEN TupleOf(ParseItems(s, i + 1, ")", <<>>, FALSE))
  ELSE IF Char(s, i) \in {"'", "\""} THEN ParseString(s, i)
  ELSE IF Char(s, i) \in NameChars
    THEN <<"ok", <<"name", SubSeq(s, i, FirstOutside(s, i, NameChars \cup Digits) - 1)>>,
           FirstOutside(s, i, NameChars \cup Digits)>>
  ELSE SyntaxError

RECURSIVE HasName(_)
HasName(v) ==
  \/ v[1] = "name"
  \/ v[1] \in {"list", "tuple"} /\ \E i \in 1..Len(v[2]) : HasName(v[2][i])

LiteralOf(v) == IF HasName(v) THEN ValueError ELSE <<"ok", v>>

\* the top level: one expression, or a tuple written without parentheses
TopLevel(p) ==
  IF ~IsOk(p) THEN SyntaxError
  ELSE IF p[2] = <<>> THEN SyntaxError
  ELSE IF p[3] THEN LiteralOf(<<"tuple", p[2]>>)
  ELSE LiteralOf(p[2][1])

\* ast.literal_eval(text): <<"ok", value>>, SyntaxError, or ValueError for an
\* expression that is no literal
literal_eval(text) == TopLevel(ParseItems(text, 1, "", <<>>, FALSE))

\* a code fence: three backquotes.  A backquote cannot be written in a string of
\* this module: the character ^, which the program gives no meaning, stands for it.
Fence == "^^^"

\* the fenced block: fence, python, newline, (.*?), fence; with re.DOTALL
code_block_re == Cat(<<Lit(Fence \o "python\n"), Group(LazyStar(AnyChar)), Lit(Fence)>>)

IsTuple3(item) == item[1] = "tuple" /\ Len(item[2]) = 3

\* the plan as the scorer takes it: the fields of each tuple
PlanOf(items) == [i \in 1..Len(items) |-> items[i][2]]

\* the check of the format that ends extract_travel_eval
CheckedPlan(items) ==
  IF \A i \in 1..Len(items) : IsTuple3(items[i]) THEN Ret(PlanOf(items)) ELSE Ret(<<>>)

\* list(travel_plan) if isinstance(travel_plan[0], tuple) else [travel_plan];
\* travel_plan[0] of an empty list, tuple or string is an IndexError
PlanItems(travel_plan) ==
  IF Len(travel_plan[2]) = 0 THEN Raise("IndexError")
  ELSE IF travel_plan[1] # "str" /\ travel_plan[2][1][1] = "tuple"
    THEN CheckedPlan(travel_plan[2])
  ELSE CheckedPlan(<<travel_plan>>)

\* except SyntaxError: return []; any other exception leaves the function
EvaluatedPlan(parsed) ==
  IF parsed = SyntaxError THEN Ret(<<>>)
  ELSE IF ~IsOk(parsed) THEN Raise("ValueError")
  ELSE PlanItems(parsed[2])

LastBlock(matches) ==
  IF matches = <<>> THEN Ret(<<>>)
  ELSE EvaluatedPlan(literal_eval(_insert_quotes_in_tuples(Strip(matches[Len(matches)]))))

extract_travel_eval(text) == LastBlock(FindAll(code_block_re, text))

extract_eval(entry, text) ==
  IF entry.task \in CountTasks THEN extract_count_eval(text, entry.k)
  ELSE IF entry.task \in MathgapTasks THEN extract_mathgap_eval(text)
  ELSE IF entry.task = "travel" THEN extract_travel_eval(text)
  ELSE IF entry.task \in LogicTasks THEN extract_logic_eval(text)
  ELSE Ret("")

(***************************************************************************)
(* Extraction inputs: a response is up to MaxFragments pieces of text,     *)
(* drawn from the pieces the patterns of its task react to                 *)
(***************************************************************************)
MaxFragments == 3
MaxK == 3

CountFragments == {"appear ", " time", "[3, 4, 5]", "[four,x]", "[]", "**12**", "x"}

MathgapFragments == {"boxed{42}", "boxed{x}", "boxed{", "}", "7", " "}

Block(content) == Fence \o "python\n" \o content \o Fence

TravelFragments ==
  {Fence, "python\n", "(a, b, c)", "x", Block("[(a, b, c), (b, c, d)]"),
   Block("(a, b, c)\n"), Block("[(a, b)]"), Block("[]")}

LogicFragments ==
  {"<answer>A</answer>", "boxed{B}", "answer: A", "answer is C", "D", "\n", "x"}

UnpuzzleFragments ==
  {"boxed{answer}", "boxed{42}", "Answer: 7.", "answer is: your answer.",
   "**Answer: answer**", "**", "x"}

ExtractInputs(task, ks, fragments) ==
  /\ \E k \in ks : json_entry = [task |-> task, k |-> k, answer |-> PyNone]
  /\ response \in StringsUpTo(fragments, MaxFragments)

InitExtract ==
  /\ pc = "ready"
  /\ call = "extract_eval"
  /\ tuple_costs = <<>>
  /\ answer = PyNone
  /\ result = NoResult
  /\ \/ \E task \in CountTasks : ExtractInputs(task, 1..MaxK, CountFragments)
     \/ \E task \in MathgapTasks : ExtractInputs(task, {0}, MathgapFragments)
     \/ ExtractInputs("travel", {0}, TravelFragments)
     \/ \E task \in LogicTasks : ExtractInputs(task, {0}, LogicFragments)
     \/ ExtractInputs("unpuzzle", {0}, {"boxed{42}", "x"})

ExtractEval ==
  /\ pc = "ready"
  /\ call = "extract_eval"
  /\ result' = extract_eval(json_entry, response)
  /\ pc' = "done"
  /\ UNCHANGED <<call, json_entry, response, answer, tuple_costs>>

SpecExtract == InitExtract /\ [][ExtractEval]_vars

InitLogic ==
  /\ pc = "ready"
  /\ call = "extract_logic_eval"
  /\ tuple_costs = <<>>
  /\ answer = PyNone
  /\ result = NoResult
  /\ \E task \in LogicTasks : ExtractInputs(task, {0}, LogicFragments)

ExtractLogicEval ==
  /\ pc = "ready"
  /\ call = "extract_logic_eval"
  /\ result' = extract_logic_eval(response)
  /\ pc' = "done"
  /\ UNCHANGED <<call, json_entry, response, answer, tuple_costs>>

SpecLogic == InitLogic /\ [][ExtractLogicEval]_vars

InitUnpuzzle ==
  /\ pc = "ready"
  /\ call = "extract_unpuzzle_eval"
  /\ tuple_costs = <<>>
  /\ answer = PyNone
  /\ result = NoResult
  /\ ExtractInputs("unpuzzle", {0}, UnpuzzleFragments)

ExtractUnpuzzleEval ==
  /\ pc = "ready"
  /\ call = "extract_unpuzzle_eval"
  /\ result' = extract_unpuzzle_eval(response)
  /\ pc' = "done"
  /\ UNCHANGED <<call, json_entry, response, answer, tuple_costs>>

SpecUnpuzzle == InitUnpuzzle /\ [][ExtractUnpuzzleEval]_vars

(***************************************************************************)
(* Travel claims                                                           *)
(***************************************************************************)
Done(f) == pc = "done" /\ call = f

RECURSIVE SumCosts(_, _, _)
SumCosts(costs, plan, i) ==
  IF i > Len(plan) THEN 0 ELSE costs[CostKey(plan[i])] + SumCosts(costs, plan, i + 1)

EveryStepIsEdge(c, plan) ==
  \A i \in 1..Len(plan) :
    /\ plan[i][1] \in DOMAIN c.graph
    /\ plan[i][2] \in DOMAIN c.graph[plan[i][1]]
    /\ plan[i][3] \in c.graph[plan[i][1]][plan[i][2]]

OriginsChain(c, plan) ==
  /\ plan[1][1] = c.city_start
  /\ \A i \in 2..Len(plan) : plan[i][1] = plan[i - 1][2]

EveryStepPriced(c, plan) == \A i \in 1..Len(plan) : CostKey(plan[i]) \in DOMAIN c.costs

CitiesOf(plan) == {plan[i][1] : i \in 1..Len(plan)} \cup {plan[i][2] : i \in 1..Len(plan)}

TravelAccepts(c, plan) ==
  /\ plan # <<>>
  /\ plan[Len(plan)][2] = c.city_end
  /\ OriginsChain(c, plan)
  /\ EveryStepIsEdge(c, plan)
  /\ Cardinality(CitiesOf(plan)) >= c.steps
  /\ EveryStepPriced(c, plan)
  /\ SumCosts(c.costs, plan, 1) <= c.total_budget

\* C1: on an itinerary of well-formed steps score_travel_eval returns true if and
\* only if the itinerary is non-empty, ends at city_end, starts at city_start with
\* every later origin equal to the previous destination, uses only edges of the
\* graph with a permitted mode, visits at least `steps` distinct cities, has a cost
\* entry for every step and a total cost that is at most total_budget.
C1_TravelVerdict ==
  Done("score_travel_eval") => result = Ret(TravelAccepts(json_entry.answer, answer))

\* a two-step itinerary accepted with a total cost equal to the budget
C1_Witness ==
  /\ Done("score_travel_eval")
  /\ Len(answer) = 2
  /\ result = Ret(TRUE)
  /\ SumCosts(json_entry.answer.costs, answer, 1) = json_entry.answer.total_budget

\* an itinerary whose steps are all edges of the graph but do not chain: rejected
C1_UnchainedRejected ==
  /\ Done("score_travel_eval")
  /\ answer # <<>>
  /\ EveryStepIsEdge(json_entry.answer, answer)
  /\ ~OriginsChain(json_entry.answer, answer)
  /\ result = Ret(FALSE)

IsMalformed(plan) == \E i \in 1..Len(plan) : Len(plan[i]) # 3

\* C2: the travel scorer never raises; an itinerary with a step that has not
\* exactly 3 fields, and one whose cost lookup is a type error, scores false.
C2_TravelNeverRaises ==
  Done("score_travel_eval") =>
    /\ result[1] = "ret"
    /\ IsMalformed(answer) => result = Ret(FALSE)
    /\ (\E i \in 1..Len(answer) : Len(answer[i]) = 3 /\ CostKey(answer[i]) = <<"TypeError">>)
         => result = Ret(FALSE)

\* C10: an accepted itinerary has a cost entry for each of its own triples: no step
\* is priced through the entry of another triple with the same joined key.
C10_OwnTripleCost ==
  (Done("score_travel_eval") /\ result = Ret(TRUE)) =>
    \A i \in 1..Len(answer) : answer[i] \in DOMAIN tuple_costs

(***************************************************************************)
(* Scoring claims                                                          *)
(***************************************************************************)

\* the "no answer" value of a task (any candidate, under an unrecognized tag)
IsSentinel(task, candidate) ==
  IF task \in CountTasks
    THEN \A i \in 1..Len(candidate) : candidate[i] \in {PyStr(""), PyNone}
  ELSE IF task \in MathgapTasks THEN candidate = PyNone
  ELSE IF task = "travel" THEN candidate = <<>>
  ELSE IF task \in LogicTasks THEN candidate = ""
  ELSE TRUE

Min(a, b) == IF a < b THEN a ELSE b

\* C5: score_count_eval is false for an empty candidate; otherwise it is true
\* exactly when candidate and ground-truth values agree at every index below the
\* shorter of the two lengths (what lies beyond is ignored in both directions).
C5_CountZipTruncation ==
  (Done("score_eval") /\ json_entry.task \in CountTasks) =>
    result = Ret( /\ answer # <<>>
                  /\ \A i \in 1..Min(Len(answer), Len(json_entry.answer)) :
                       answer[i] = json_entry.answer[i][2] )

\* candidate [3, 4] against the ground-truth values (3, 4, 5) scores true
C5_Witness ==
  /\ Done("score_eval")
  /\ json_entry.task \in CountTasks
  /\ answer = <<PyInt(3), PyInt(4)>>
  /\ Values(json_entry.answer) = <<PyInt(3), PyInt(4), PyInt(5)>>
  /\ result = Ret(TRUE)

\* s without its leading and trailing spaces: the part of s between its first and
\* its last character that is not a space
Trimmed(s) ==
  LET keep == {i \in 1..Len(s) : Char(s, i) # " "} IN
    IF keep = {} THEN ""
    ELSE SubSeq(s, CHOOSE i \in keep : \A j \in keep : i <= j,
                   CHOOSE i \in keep : \A j \in keep : i >= j)

\* C7 as stated: both strings are lowercased and spaces are removed only from the
\* right edge of the ground truth, so a leading space, or a trailing space of the
\* candidate, makes the comparison fail.
C7_UnpuzzleRightStripOnly_Original ==
  Done("score_unpuzzle_eval") =>
    result = Ret(Lower(answer) = RStripSpace(Lower(json_entry.answer)))

\* C7 as amended: both strings are lowercased and space characters (only spaces, no
\* other whitespace) are removed from both edges of both strings before the
\* comparison, so leading and trailing spaces on either side are not significant.
C7_UnpuzzleStripBoth ==
  Done("score_unpuzzle_eval") =>
    result = Ret(Trimmed(Lower(json_entry.answer)) = Trimmed(Lower(answer)))

\* a candidate that differs from the ground truth by a leading space scores true
C7_Witness ==
  /\ Done("score_unpuzzle_eval")
  /\ json_entry.answer = "A"
  /\ answer = " a"
  /\ result = Ret(TRUE)

(***************************************************************************)
(* Extraction claims                                                       *)
(***************************************************************************)
Matches(r, text) == Matched(Search(r, text))

\* whether one of the patterns of the task of entry matches text
TaskPatternMatches(entry, text) ==
  IF entry.task \in CountTasks
    THEN Matches(IF entry.k = 1 THEN count_re ELSE count_multi_re, text)
  ELSE IF entry.task \in MathgapTasks THEN Matches(mathgap_re, text)
  ELSE IF entry.task = "travel" THEN Matches(code_block_re, text)
  ELSE IF entry.task \in LogicTasks
    THEN \E n \in 1..Len(compiled_res) : Matches(compiled_res[n], text)
  ELSE FALSE

\* whether r is the return of the "no answer" value of the task
IsNoAnswer(task, r) ==
  /\ r[1] = "ret"
  /\ IF task \in CountTasks
       THEN r[2] # <<>> /\ \A i \in 1..Len(r[2]) : r[2][i] \in {PyStr(""), PyNone}
     ELSE IF task \in MathgapTasks THEN r[2] = PyNone
     ELSE IF task = "travel" THEN r[2] = <<>>
     ELSE r[2] = ""

\* C3: for every task tag and every response in which none of the patterns of the
\* task matches, extract_eval returns the "no answer" value of the task and does
\* not raise; for the counting tasks this holds for every k.
C3_ExtractionNeverRaises ==
  (Done("extract_eval") /\ ~TaskPatternMatches(json_entry, response))
    => IsNoAnswer(json_entry.task, result)

\* the patterns of the logic extraction in the order of their priority: the
\* answer tag, the boxed letter, then the two sentence patterns
LogicPriority ==
  <<extract_answer_html, extract_answer_boxed, extract_answer_sentence,
    extract_answer_sentence2>>

\* the letter that pattern n of LogicPriority captures in text
LogicLetter(n, text) == GroupText(text, Search(LogicPriority[n], text))

\* C6: extract_logic_eval returns the letter captured by the pattern of highest
\* priority (answer tag, boxed, sentence) that matches anywhere in the response,
\* wherever in the text the matches are; the result is one of A, B, C, D or the
\* empty string, and is the empty string exactly when no pattern matches.
C6_LogicPriority ==
  Done("extract_logic_eval") =>
    /\ result[1] = "ret"
    /\ result[2] \in Choices \cup {""}
    /\ result[2] = "" <=> \A n \in 1..Len(LogicPriority) : ~Matches(LogicPriority[n], response)
    /\ \A n \in 1..Len(LogicPriority) :
         ( /\ Matches(LogicPriority[n], response)
           /\ \A m \in 1..(n - 1) : ~Matches(LogicPriority[m], response) )
         => result[2] = LogicLetter(n, response)

\* a response with a plain "answer: A" before a boxed B yields B
C6_Witness ==
  /\ Done("extract_logic_eval")
  /\ response = "answer: A" \o "boxed{B}"
  /\ result = Ret("B")

\* the captures of pattern n of find_answers in text that are no placeholder
Acceptable(n, text) ==
  SelectSeq(FindAll(find_answers[n], text), LAMBDA c : c \notin Placeholders)

\* C8 as stated: the first pattern, in priority order, that has any match decides:
\* the result is its first capture that is no placeholder, and the empty string if
\* all its captures are placeholders (no later pattern is tried) or if no pattern
\* matches.
C8_FirstMatchingPatternDecides_Original ==
  Done("extract_unpuzzle_eval") =>
    /\ (\A n \in 1..Len(find_answers) : FindAll(find_answers[n], response) = <<>>)
         => result = Ret("")
    /\ \A n \in 1..Len(find_answers) :
         ( /\ FindAll(find_answers[n], response) # <<>>
           /\ \A m \in 1..(n - 1) : FindAll(find_answers[m], response) = <<>> )
         => result = Ret(IF Acceptable(n, response) = <<>> THEN ""
                         ELSE Acceptable(n, response)[1])

\* C8 as amended: the first pattern, in priority order, that has a capture which
\* is no placeholder decides: the result is the first such capture; a pattern
\* whose captures are all placeholders is passed over and the later patterns are
\* tried.  The result is the empty string exactly when no pattern has a capture
\* that is no placeholder.
C8_FirstAcceptableCaptureDecides ==
  Done("extract_unpuzzle_eval") =>
    /\ (\A n \in 1..Len(find_answers) : Acceptable(n, response) = <<>>)
         => result = Ret("")
    /\ \A n \in 1..Len(find_answers) :
         ( /\ Acceptable(n, response) # <<>>
           /\ \A m \in 1..(n - 1) : Acceptable(m, response) = <<>> )
         => result = Ret(Acceptable(n, response)[1])

\* the boxed pattern captures only a placeholder and a later pattern gives the
\* answer
C8_Witness ==
  /\ Done("extract_unpuzzle_eval")
  /\ FindAll(find_answers[1], response) = <<"answer">>
  /\ result[1] = "ret"
  /\ result[2] # ""

\* the number of comma-separated elements between the brackets that
\* count_multi_re matched in text (none for an empty pair of brackets)
ElementCount(text, m) == IF HasGroup(m) THEN Len(Split(GroupText(text, m), ",")) ELSE 0

\* C9: for k > 1 and a response that matches the bracketed-list pattern,
\* extract_count_eval does not raise; it returns a list of exactly k elements when
\* the brackets hold k comma-separated elements, and the one-element failure
\* sequence when they hold fewer or more (an empty pair of brackets included).
C9_CountListOfK ==
  ( /\ Done("extract_eval")
    /\ json_entry.task \in CountTasks
    /\ json_entry.k > 1
    /\ Matches(count_multi_re, response) )
  => /\ result[1] = "ret"
     /\ IF ElementCount(response, Search(count_multi_re, response)) = json_entry.k
          THEN Len(result[2]) = json_entry.k
          ELSE result[2] = <<PyStr("")>>

====
